---- MODULE Spec2Model ----
(***************************************************************************)
(* Model of update_gen.py, the local configuration update tool of a        *)
(* SCIONLab attachment point: one reconciliation cycle (main ->            *)
(* fullsync_local_gen) fetches the desired connections from the            *)
(* coordinator, prunes and merges the border routers of the topology,      *)
(* allocates interfaces for the connections, persists the topology,        *)
(* remaps the monitoring endpoint and acknowledges to the coordinator.     *)
(***************************************************************************)
EXTENDS Integers, Sequences, FiniteSets, TLC

(***************************************************************************)
(* Bounds of the model.                                                    *)
(***************************************************************************)
\* longest list of connections the coordinator reports for one AS
MaxConns == 2

(***************************************************************************)
(* Program constants.                                                      *)
(***************************************************************************)
VPN_ADDR == "10.0.8.1"
MTU == 1472
BANDWIDTH == 1000
BR_INTERNAL_START_PORT == 30050
MAX_IFACES_IN_BR == 12
\* the first user border router is named with index 11 (i + 11)
FIRST_USER_BR == 11

\* A 48 bit AS number is written as its three 16 bit groups, as in the
\* textual form ffaa:0:110; integers are compared group by group.
AsLess(a, b) ==
    \/ a[1] < b[1]
    \/ a[1] = b[1] /\ a[2] < b[2]
    \/ a[1] = b[1] /\ a[2] = b[2] /\ a[3] < b[3]

\* 0xffaa00000000 and 0xffaa00010000
INFRA_LO == <<65450, 0, 0>>
INFRA_HI == <<65450, 1, 0>>

asid_is_infrastructure(asid) == AsLess(INFRA_LO, asid) /\ AsLess(asid, INFRA_HI)

(***************************************************************************)
(* The environment of one attachment point.                                *)
(***************************************************************************)
\* the AS given to fullsync_local_gen, and another AS the coordinator may name
MY_ASID == "1-11"
OTHER_ASID == "1-12"
\* config.interface_ip and config.internal_ip
INTERFACE_IP == "192.0.2.1"
INTERNAL_IP == "127.0.0.1"

\* 'br{}-{}'.format(my_asid, n)
BrName(n) == "br" \o MY_ASID \o "-" \o ToString(n)

\* Python's order of the router names that occur (strings compare character
\* by character: 'br1-11-11' < 'br1-11-12' < 'br1-11-13' < 'br1-11-2').
NameOrder == <<BrName(1), BrName(11), BrName(12), BrName(13), BrName(2)>>

\* sorted(S) for a set S of router names
Sorted(S) == SelectSeq(NameOrder, LAMBDA n : n \in S)

\* remote ASes: ISD_AS(x)[1] is the AS number of an ISD-AS x = <<isd, as>>
IA_INFRA == <<1, <<65450, 0, 272>>>>
IA_INFRA2 == <<1, <<65450, 0, 273>>>>
IA_LOW == <<1, <<65450, 0, 0>>>>
IA_USER_A == <<1, <<65450, 1, 1>>>>
IA_USER_B == <<1, <<65450, 1, 2>>>>

(***************************************************************************)
(* Topology documents: BorderRouters maps a router name to a router, a     *)
(* router has InternalAddrs and CtrlAddr (maps from the protocol) and      *)
(* Interfaces (a map from the interface id, a decimal string).             *)
(***************************************************************************)
EmptyMap == [x \in {} |-> x]

_create_border_router ==
    [InternalAddrs |-> EmptyMap, CtrlAddr |-> EmptyMap, Interfaces |-> EmptyMap]

\* dict.setdefault applied for every entry of e: entries of d are kept
SetDefaultAll(d, e) ==
    [k \in DOMAIN d \cup DOMAIN e |-> IF k \in DOMAIN d THEN d[k] ELSE e[k]]

\* lines 219-223: the interfaces of a router that are not deleted
KeptInterfaces(br) ==
    [ifnum \in {k \in DOMAIN br.Interfaces :
                  ~(~asid_is_infrastructure(br.Interfaces[k].ISD_AS[2])
                    /\ br.Interfaces[k].LinkTo = "CHILD")}
        |-> br.Interfaces[ifnum]]

\* a faulty pruning that looks for empty routers before deleting interfaces
RemoveChildKeepingEmptied(brs) ==
    LET pruned == [n \in DOMAIN brs |->
                     [brs[n] EXCEPT !.Interfaces = KeptInterfaces(brs[n])]]
    IN  [n \in {m \in DOMAIN brs : DOMAIN brs[m].Interfaces # {}} |-> pruned[n]]

\* lines 211-226
_remove_child_interfaces(brs) ==
    LET pruned == [n \in DOMAIN brs |->
                     [brs[n] EXCEPT !.Interfaces = KeptInterfaces(brs[n])]]
    IN  [n \in {m \in DOMAIN brs : DOMAIN pruned[m].Interfaces # {}} |-> pruned[n]]

\* lines 250-255: merge one router into the target
MergeBr(br, currBr) ==
    [InternalAddrs |-> SetDefaultAll(br.InternalAddrs, currBr.InternalAddrs),
     CtrlAddr |-> SetDefaultAll(br.CtrlAddr, currBr.CtrlAddr),
     Interfaces |-> SetDefaultAll(br.Interfaces, currBr.Interfaces)]

RECURSIVE MergeAll(_, _, _)
MergeAll(br, brs, names) ==
    IF names = <<>> THEN br
    ELSE MergeAll(MergeBr(br, brs[Head(names)]), brs, Tail(names))

\* a faulty merge that leaves the merged routers in the topology
CombineKeepingMerged(brs, brname) ==
    IF Cardinality(DOMAIN brs) = 1
    THEN [n \in {brname} |-> brs[CHOOSE m \in DOMAIN brs : TRUE]]
    ELSE LET br == IF brname \in DOMAIN brs THEN brs[brname]
                   ELSE _create_border_router
             merged == MergeAll(br, brs, Sorted(DOMAIN brs \ {brname}))
         IN  [n \in DOMAIN brs \cup {brname} |->
                IF n = brname THEN merged ELSE brs[n]]

\* the BorderRouters left by _combine_border_routers; the router it returns
\* is the entry brname
_combine_border_routers(brs, brname) ==
    IF Cardinality(DOMAIN brs) = 1
    THEN [n \in {brname} |-> brs[CHOOSE m \in DOMAIN brs : TRUE]]
    ELSE LET br == IF brname \in DOMAIN brs THEN brs[brname]
                   ELSE _create_border_router
         IN  [n \in {brname} |->
                MergeAll(br, brs, Sorted(DOMAIN brs \ {brname}))]

_insert_interface(br, if_id, as_id, as_ip, as_port, ap_ip, ap_port, internal_ip) ==
    LET ctrl == [Public |-> [Addr |-> internal_ip,
                             L4Port |-> BR_INTERNAL_START_PORT - 1 + if_id]]
        intl == [PublicOverlay |-> [Addr |-> internal_ip,
                             OverlayPort |-> BR_INTERNAL_START_PORT + 1000 - 1 + if_id]]
        iface == [Overlay |-> "UDP/IPv4",
                  ISD_AS |-> as_id,
                  LinkTo |-> "CHILD",
                  Bandwidth |-> BANDWIDTH,
                  MTU |-> MTU,
                  RemoteOverlay |-> [Addr |-> as_ip, OverlayPort |-> as_port],
                  PublicOverlay |-> [Addr |-> ap_ip, OverlayPort |-> ap_port]]
        key == ToString(if_id)
    IN  [CtrlAddr |-> SetDefaultAll(br.CtrlAddr, [p \in {"IPv4"} |-> ctrl]),
         InternalAddrs |-> SetDefaultAll(br.InternalAddrs, [p \in {"IPv4"} |-> intl]),
         Interfaces |-> [k \in DOMAIN br.Interfaces \cup {key} |->
                           IF k = key THEN iface ELSE br.Interfaces[k]]]

\* faulty guards of the allocation loop
RefuseBelowTen(if_id, existing_ifids) ==
    if_id < 10 \/ ToString(if_id) \in existing_ifids

\* looks the id up among the other ids only, so it refuses reserved ids alone
RefuseReservedOnly(if_id, existing_ifids) ==
    if_id <= 10 \/ ToString(if_id) \in existing_ifids \ {ToString(if_id)}

\* line 136: refuse an infrastructure id or an id that exists already
Refuse(if_id, existing_ifids) ==
    if_id <= 10 \/ ToString(if_id) \in existing_ifids

\* a faulty test that lets a router take one interface too many
NeedNewRouterLate(userBRs) ==
    \/ userBRs = <<>>
    \/ Cardinality(DOMAIN userBRs[Len(userBRs)].Interfaces) > MAX_IFACES_IN_BR

\* line 139: no user router yet, or the last one is full
NeedNewRouter(userBRs) ==
    \/ userBRs = <<>>
    \/ Cardinality(DOMAIN userBRs[Len(userBRs)].Interfaces) >= MAX_IFACES_IN_BR

\* a faulty bookkeeping that forgets the id just inserted
AddIfidForgets(existing_ifids, if_id) == existing_ifids

\* line 144
AddIfid(existing_ifids, if_id) == existing_ifids \cup {ToString(if_id)}

\* a faulty step that requests a VPN address for every connection inserted
ConfigureVpnForAll(vpn, conn) == Append(vpn, <<conn.VPNUserID, conn.UserIP>>)

\* lines 146-147: config.configure_vpn_ip(user, as_ip) for a VPN connection;
\* vpn is the list of the calls made so far
ConfigureVpn(vpn, conn) ==
    IF conn.IsVPN THEN Append(vpn, <<conn.VPNUserID, conn.UserIP>>) ELSE vpn

\* lines 127-147: the loop over the connections from position i on; st holds
\* userBRs, existing_ifids, skipped (positions, counted from 1) and the calls
\* of config.configure_vpn_ip
RECURSIVE Allocate(_, _, _)
Allocate(connections, i, st) ==
    IF i > Len(connections) THEN st
    ELSE LET conn == connections[i]
             if_id == conn.APBRID
         IN  IF Refuse(if_id, st.existing_ifids)
             THEN Allocate(connections, i + 1,
                           [st EXCEPT !.skipped = Append(@, i)])
             ELSE LET fresh == NeedNewRouter(st.userBRs)
                      brs0 == IF fresh THEN Append(st.userBRs, _create_border_router)
                              ELSE st.userBRs
                      ap_ip == IF conn.IsVPN THEN VPN_ADDR ELSE INTERFACE_IP
                      br == _insert_interface(brs0[Len(brs0)], if_id, conn.ASID,
                                              conn.UserIP, conn.UserPort, ap_ip,
                                              conn.APPort, INTERNAL_IP)
                  IN  Allocate(connections, i + 1,
                        [userBRs |-> [brs0 EXCEPT ![Len(brs0)] = br],
                         existing_ifids |-> AddIfid(st.existing_ifids, if_id),
                         skipped |-> st.skipped,
                         vpn |-> ConfigureVpn(st.vpn, conn)])

\* a faulty filter that acknowledges every connection received
AcceptedAll(connections, skipped) == connections

\* line 156: the connections whose position was not skipped, in their order
Accepted(connections, skipped) ==
    LET pairs == SelectSeq([j \in 1..Len(connections) |-> <<j, connections[j]>>],
                           LAMBDA p : p[1] \notin skipped)
    IN  [k \in 1..Len(pairs) |-> pairs[k][2]]

\* a faulty name that forgets the offset of the user routers
UserBrNameFromOne(i) == BrName(i)

\* line 149: the name of the i-th user router, i counted from 1
UserBrName(i) == BrName(i + FIRST_USER_BR - 1)

\* a faulty comparison that only looks at the router names
TopoChangedNamesOnly(old_brs, new_brs) == DOMAIN old_brs # DOMAIN new_brs

\* line 159
TopoChanged(old_brs, new_brs) == old_brs # new_brs

\* lines 116-159 on the loaded BorderRouters tp and the connections
Reconciled(tp, connections) ==
    LET combined == _combine_border_routers(_remove_child_interfaces(tp), BrName(1))
        st == Allocate(connections, 1,
                       [userBRs |-> <<>>,
                        existing_ifids |-> DOMAIN combined[BrName(1)].Interfaces,
                        skipped |-> <<>>,
                        vpn |-> <<>>])
        new_brs == [n \in DOMAIN combined
                          \cup {UserBrName(i) : i \in 1..Len(st.userBRs)} |->
                      IF \E i \in 1..Len(st.userBRs) : n = UserBrName(i)
                      THEN st.userBRs[CHOOSE i \in 1..Len(st.userBRs) :
                                         n = UserBrName(i)]
                      ELSE combined[n]]
        skipped == {st.skipped[j] : j \in 1..Len(st.skipped)}
    IN  [new_tp |-> new_brs,
         skipped |-> skipped,
         accepted |-> Accepted(connections, skipped),
         vpn |-> st.vpn,
         changed |-> TopoChanged(tp, new_brs)]

(***************************************************************************)
(* Inputs: the connections the coordinator may report and the topologies   *)
(* found on disk before the first cycle.                                   *)
(***************************************************************************)
Conn(as, ip, id, vpn, user) ==
    [ASID |-> as, UserIP |-> ip, UserPort |-> 50000, APPort |-> 50000 + id,
     APBRID |-> id, IsVPN |-> vpn, VPNUserID |-> user]

ConnPool ==
    {Conn(IA_USER_A, "198.51.100.1", 20, FALSE, ""),
     Conn(IA_USER_B, "10.0.8.2", 21, TRUE, "user_b"),
     Conn(IA_USER_A, "198.51.100.1", 10, FALSE, ""),
     Conn(IA_INFRA, "198.51.100.3", 20, FALSE, "")}

Batches == UNION {[1..n -> ConnPool] : n \in 0..MaxConns}

\* n connections of user ASes with the fresh ids 31, 32, ...
BigBatch(n) ==
    [i \in 1..n |-> Conn(IA_USER_A, "198.51.100.1", 30 + i, FALSE, "")]

\* lists that fill one user router, overflow it by one, and fill two
BigBatches ==
    {BigBatch(MAX_IFACES_IN_BR), BigBatch(MAX_IFACES_IN_BR + 1),
     BigBatch(2 * MAX_IFACES_IN_BR + 1)}

Status(conns) == [connections |-> conns]

\* the JSON maps the coordinator may answer to the read request
Responses ==
    {[a \in {MY_ASID} |-> Status(b)] : b \in Batches \cup BigBatches}
    \cup {[a \in {MY_ASID, OTHER_ASID} |->
             IF a = MY_ASID THEN Status(b) ELSE Status(<<>>)] :
                b \in {c \in Batches : Len(c) <= 1}}
    \cup {EmptyMap, [a \in {OTHER_ASID} |-> Status(<<>>)]}

Iface(ia, linkto, port) ==
    [Overlay |-> "UDP/IPv4", ISD_AS |-> ia, LinkTo |-> linkto,
     Bandwidth |-> BANDWIDTH, MTU |-> MTU,
     RemoteOverlay |-> [Addr |-> "203.0.113.1", OverlayPort |-> port],
     PublicOverlay |-> [Addr |-> INTERFACE_IP, OverlayPort |-> port]]

Addrs(proto, port) ==
    [InternalAddrs |-> [p \in {proto} |->
                          [PublicOverlay |-> [Addr |-> INTERNAL_IP, OverlayPort |-> port]]],
     CtrlAddr |-> [p \in {proto} |->
                          [Public |-> [Addr |-> INTERNAL_IP, L4Port |-> port - 1000]]]]

Router(addrs, ifaces) ==
    [InternalAddrs |-> addrs.InternalAddrs, CtrlAddr |-> addrs.CtrlAddr,
     Interfaces |-> ifaces]

\* routers of existing configurations: an infrastructure router, a legacy
\* router holding a link of a user AS, and routers with child links that
\* lie at the edge of the infrastructure range
LegacyRouters ==
    {Router(Addrs("IPv4", 31050), [k \in {"10"} |-> Iface(IA_INFRA, "PARENT", 50010)]),
     Router(Addrs("IPv4", 31051),
            [k \in {"10", "20"} |->
               IF k = "10" THEN Iface(IA_INFRA2, "CORE", 50011)
               ELSE Iface(IA_USER_A, "CHILD", 50020)]),
     Router(Addrs("IPv6", 31052), [k \in {"20"} |-> Iface(IA_INFRA, "CHILD", 50021)]),
     Router(Addrs("IPv4", 31053), [k \in {"21"} |-> Iface(IA_LOW, "CHILD", 50022)])}

LegacyNames == {BrName(1), BrName(2), BrName(11)}

InitTopologies == UNION {[S -> LegacyRouters] : S \in SUBSET LegacyNames}

(***************************************************************************)
(* State.                                                                  *)
(***************************************************************************)
VARIABLES
    pc,                 \* position of the process; "idle" between two runs
    status_code,        \* status of the answer to the read request, 0: none
    outcome,            \* how the run ended, "running" during a run
    disk,               \* BorderRouters of the topology.json on disk
    marker,             \* the remap-in-progress file exists
    fullsynced,         \* the map returned by request_fullsync
    monitoring_remap_in_progress,
    reconciled,         \* the body of the loop of fullsync_local_gen was entered
    tp,                 \* BorderRouters of the loaded topology
    new_tp,             \* BorderRouters of the new topology
    connections,        \* the connections as received
    skipped,
    vpn_calls,          \* calls of config.configure_vpn_ip, in order
    ack_to_coordinator_message,
    topo_has_changed,
    wrote,              \* config.write_topology was called
    remap,              \* what became of the call of _reset_monitoring
    updated,            \* the value _reset_monitoring returned
    response_bound,     \* the local variable response is assigned
    response,
    ack_failed,         \* the failure of the acknowledgment was printed
    warned,             \* the warning about a differing coordinator was printed
    restarted,          \* _restart_scion was called
    marker_at_start,    \* history: the marker existed when the run started
    written_for,        \* history: the connections of the run that wrote disk
    pending_remap,      \* history: disk was written and not remapped since
    content,            \* the body of the answer to the read request
    url,                \* reply_fullsync: the URL of the next POST, "": None
    resp,               \* reply_fullsync: the answer to the last POST
    posts,              \* history: the POSTs reply_fullsync issued, in order
    redirects           \* history: the targets of the redirects it received

vars == <<pc, status_code, outcome, disk, marker, fullsynced, monitoring_remap_in_progress,
          reconciled, tp, new_tp, connections, skipped, vpn_calls,
          ack_to_coordinator_message, topo_has_changed, wrote, remap, updated,
          response_bound, response, ack_failed, warned, restarted,
          marker_at_start, written_for, pending_remap,
          content, url, resp, posts, redirects>>

durable == <<disk, marker, written_for, pending_remap>>

\* the locals of reply_fullsync and the record of its requests
reply_locals == <<url, resp, posts, redirects>>

\* no answer yet
NoResponse == [is_redirect |-> FALSE, next |-> "", json |-> FALSE, body |-> EmptyMap]

\* the locals of a run that has not started
Fresh ==
    /\ reconciled = FALSE
    /\ tp = EmptyMap
    /\ new_tp = EmptyMap
    /\ connections = <<>>
    /\ skipped = {}
    /\ vpn_calls = <<>>
    /\ ack_to_coordinator_message = EmptyMap
    /\ topo_has_changed = FALSE
    /\ wrote = FALSE
    /\ remap = "none"
    /\ updated = FALSE
    /\ response_bound = FALSE
    /\ response = EmptyMap
    /\ ack_failed = FALSE
    /\ warned = FALSE
    /\ restarted = FALSE

locals == <<reconciled, tp, new_tp, connections, skipped, vpn_calls,
            ack_to_coordinator_message, topo_has_changed, wrote, remap, updated,
            response_bound, response, ack_failed, warned, restarted>>

Init ==
    /\ pc = "idle"
    /\ status_code = 0
    /\ outcome = "none"
    /\ disk \in InitTopologies
    /\ marker = FALSE
    /\ fullsynced = EmptyMap
    /\ monitoring_remap_in_progress = FALSE
    /\ Fresh
    /\ marker_at_start = FALSE
    /\ written_for = <<>>
    /\ pending_remap = FALSE
    /\ content = "none"
    /\ url = ""
    /\ resp = NoResponse
    /\ posts = <<>>
    /\ redirects = <<>>

(***************************************************************************)
(* main, lines 610-622, and request_fullsync: a run starts with fresh      *)
(* locals and asks the coordinator.                                        *)
(***************************************************************************)
\* requests.get raises ConnectionError: exit(1)
ReadConnectionError ==
    /\ pc = "idle"
    /\ status_code' = 0
    /\ content' = "none"
    /\ outcome' = "exit1"
    /\ pc' = "done"
    /\ marker_at_start' = marker
    /\ UNCHANGED <<fullsynced, monitoring_remap_in_progress>>
    /\ UNCHANGED locals
    /\ UNCHANGED durable
    /\ UNCHANGED reply_locals

\* a faulty reading that accepts a JSON body whatever the status code
ReadBadStatusLenient ==
    /\ pc = "idle"
    /\ \E code \in {404, 500} : status_code' = code
    /\ content' = "json"
    /\ \E fs \in Responses : fullsynced' = fs
    /\ monitoring_remap_in_progress' = marker
    /\ outcome' = "running"
    /\ pc' = "loop"
    /\ marker_at_start' = marker
    /\ UNCHANGED locals
    /\ UNCHANGED durable
    /\ UNCHANGED reply_locals

\* a status code other than 200 and 204: raise, whatever the body
ReadBadStatus ==
    /\ pc = "idle"
    /\ \E code \in {404, 500} : status_code' = code
    /\ \E c \in {"empty", "json", "malformed"} : content' = c
    /\ outcome' = "raised"
    /\ pc' = "done"
    /\ marker_at_start' = marker
    /\ UNCHANGED <<fullsynced, monitoring_remap_in_progress>>
    /\ UNCHANGED locals
    /\ UNCHANGED durable
    /\ UNCHANGED reply_locals

\* status 200 and a body json.loads rejects: raise
ReadBadJson ==
    /\ pc = "idle"
    /\ status_code' = 200
    /\ \E c \in {"empty", "malformed"} : content' = c
    /\ outcome' = "raised"
    /\ pc' = "done"
    /\ marker_at_start' = marker
    /\ UNCHANGED <<fullsynced, monitoring_remap_in_progress>>
    /\ UNCHANGED locals
    /\ UNCHANGED durable
    /\ UNCHANGED reply_locals

\* status 204: the empty map; line 109 then looks for the marker file
ReadNoContent ==
    /\ pc = "idle"
    /\ status_code' = 204
    /\ content' = "empty"
    /\ fullsynced' = EmptyMap
    /\ monitoring_remap_in_progress' = marker
    /\ outcome' = "running"
    /\ pc' = "loop"
    /\ marker_at_start' = marker
    /\ UNCHANGED locals
    /\ UNCHANGED durable
    /\ UNCHANGED reply_locals

\* status 200 and a JSON map; line 109 then looks for the marker file
ReadOk ==
    /\ pc = "idle"
    /\ status_code' = 200
    /\ content' = "json"
    /\ \E fs \in Responses : fullsynced' = fs
    /\ monitoring_remap_in_progress' = marker
    /\ outcome' = "running"
    /\ pc' = "loop"
    /\ marker_at_start' = marker
    /\ UNCHANGED locals
    /\ UNCHANGED durable
    /\ UNCHANGED reply_locals

(***************************************************************************)
(* fullsync_local_gen, lines 110-165.                                      *)
(***************************************************************************)
\* the loop finds no entry of the local AS
SkipForeign ==
    /\ pc = "loop"
    /\ MY_ASID \notin DOMAIN fullsynced
    /\ pc' = "ack"
    /\ UNCHANGED <<status_code, content, outcome, fullsynced, monitoring_remap_in_progress, reconciled,
                   tp, new_tp, connections, skipped, vpn_calls,
                   ack_to_coordinator_message, topo_has_changed, wrote, remap,
                   updated, response_bound, response, ack_failed, warned,
                   restarted, marker_at_start>>
    /\ UNCHANGED durable
    /\ UNCHANGED reply_locals

\* lines 113-159 and 165
Reconcile ==
    /\ pc = "loop"
    /\ MY_ASID \in DOMAIN fullsynced
    /\ LET r == Reconciled(disk, fullsynced[MY_ASID].connections)
       IN  /\ tp' = disk
           /\ new_tp' = r.new_tp
           /\ connections' = fullsynced[MY_ASID].connections
           /\ skipped' = r.skipped
           /\ vpn_calls' = r.vpn
           /\ ack_to_coordinator_message' =
                 [a \in {MY_ASID} |-> Status(r.accepted)]
           /\ topo_has_changed' = r.changed
           /\ pc' = IF r.changed THEN "write"
                    ELSE IF monitoring_remap_in_progress THEN "mark" ELSE "ack"
    /\ reconciled' = TRUE
    /\ UNCHANGED <<status_code, content, outcome, fullsynced, monitoring_remap_in_progress, wrote,
                   remap, updated, response_bound, response, ack_failed, warned,
                   restarted, marker_at_start>>
    /\ UNCHANGED durable
    /\ UNCHANGED reply_locals

\* lines 160-161
WriteTopology ==
    /\ pc = "write"
    /\ disk' = new_tp
    /\ wrote' = TRUE
    /\ written_for' = <<connections>>
    /\ pending_remap' = TRUE
    /\ pc' = "mark"
    /\ UNCHANGED <<status_code, content, outcome, marker, fullsynced, monitoring_remap_in_progress,
                   reconciled, tp, new_tp, connections, skipped, vpn_calls,
                   ack_to_coordinator_message, topo_has_changed, remap, updated,
                   response_bound, response, ack_failed, warned, restarted,
                   marker_at_start>>
    /\ UNCHANGED reply_locals

(***************************************************************************)
(* _reset_monitoring, lines 183-209.                                       *)
(***************************************************************************)
\* lines 189-190: the marker file is created
ResetMonitoringMark ==
    /\ pc = "mark"
    /\ marker' = TRUE
    /\ remap' = "called"
    /\ pc' = "put"
    /\ UNCHANGED <<status_code, content, outcome, disk, fullsynced, monitoring_remap_in_progress,
                   reconciled, tp, new_tp, connections, skipped, vpn_calls,
                   ack_to_coordinator_message, topo_has_changed, wrote, updated,
                   response_bound, response, ack_failed, warned, restarted,
                   marker_at_start, written_for, pending_remap>>
    /\ UNCHANGED reply_locals

\* line 195 needs br['InternalAddrs']['IPv4'] of every router
HasOverlayPort(br) == "IPv4" \in DOMAIN br.InternalAddrs

\* line 195 raises KeyError, which nothing catches
ResetMonitoringKeyError ==
    /\ pc = "put"
    /\ \E n \in DOMAIN new_tp : ~HasOverlayPort(new_tp[n])
    /\ remap' = "keyerror"
    /\ outcome' = "raised"
    /\ pc' = "done"
    /\ UNCHANGED <<status_code, content, disk, marker, fullsynced, monitoring_remap_in_progress,
                   reconciled, tp, new_tp, connections, skipped, vpn_calls,
                   ack_to_coordinator_message, topo_has_changed, wrote, updated,
                   response_bound, response, ack_failed, warned, restarted,
                   marker_at_start, written_for, pending_remap>>
    /\ UNCHANGED reply_locals

\* lines 201-209: the PUT is answered with an ok status ("ok"), with an error
\* status ("error_status"), or raises ("unreachable")
ResetMonitoringPut ==
    /\ pc = "put"
    /\ \A n \in DOMAIN new_tp : HasOverlayPort(new_tp[n])
    /\ \E res \in {"ok", "error_status", "unreachable"} :
         /\ remap' = res
         /\ updated' = (res = "ok")
         /\ marker' = (res = "unreachable")
         /\ pending_remap' = (pending_remap /\ res # "ok")
    /\ pc' = "ack"
    /\ UNCHANGED <<status_code, content, outcome, disk, fullsynced, monitoring_remap_in_progress,
                   reconciled, tp, new_tp, connections, skipped, vpn_calls,
                   ack_to_coordinator_message, topo_has_changed, wrote,
                   response_bound, response, ack_failed, warned, restarted,
                   marker_at_start, written_for>>
    /\ UNCHANGED reply_locals

(***************************************************************************)
(* fullsync_local_gen, lines 168-181: the acknowledgment.                  *)
(***************************************************************************)
\* what the coordinator may answer to the acknowledgment ack
AckResponses(ack) ==
    {ack, EmptyMap, [a \in {MY_ASID} |-> Status(<<>>)],
     [a \in {OTHER_ASID} |-> Status(<<>>)]}

\* line 169: nothing to acknowledge
NoAck ==
    /\ pc = "ack"
    /\ ack_to_coordinator_message = EmptyMap
    /\ pc' = "main"
    /\ UNCHANGED <<status_code, content, outcome, fullsynced, monitoring_remap_in_progress, reconciled,
                   tp, new_tp, connections, skipped, vpn_calls,
                   ack_to_coordinator_message, topo_has_changed, wrote, remap,
                   updated, response_bound, response, ack_failed, warned,
                   restarted, marker_at_start>>
    /\ UNCHANGED durable
    /\ UNCHANGED reply_locals

\* reply_fullsync raises: line 173 prints, and line 174 reads the local
\* variable response, which was never assigned (UnboundLocalError)
AckRaises ==
    /\ pc = "ack"
    /\ ack_to_coordinator_message # EmptyMap
    /\ ack_failed' = TRUE
    /\ outcome' = "raised"
    /\ pc' = "done"
    /\ UNCHANGED <<status_code, content, fullsynced, monitoring_remap_in_progress, reconciled,
                   tp, new_tp, connections, skipped, vpn_calls,
                   ack_to_coordinator_message, topo_has_changed, wrote, remap,
                   updated, response_bound, response, warned,
                   restarted, marker_at_start>>
    /\ UNCHANGED durable
    /\ UNCHANGED reply_locals

\* reply_fullsync returns the coordinator's answer; lines 174-181
AckResponds ==
    /\ pc = "ack"
    /\ ack_to_coordinator_message # EmptyMap
    /\ \E r \in AckResponses(ack_to_coordinator_message) :
         /\ response' = r
         /\ warned' = (r # EmptyMap /\ r # ack_to_coordinator_message)
    /\ response_bound' = TRUE
    /\ pc' = "main"
    /\ UNCHANGED <<status_code, content, outcome, fullsynced, monitoring_remap_in_progress, reconciled,
                   tp, new_tp, connections, skipped, vpn_calls,
                   ack_to_coordinator_message, topo_has_changed, wrote, remap,
                   updated, ack_failed, restarted, marker_at_start>>
    /\ UNCHANGED durable
    /\ UNCHANGED reply_locals

(***************************************************************************)
(* main, lines 624-630.                                                    *)
(***************************************************************************)
MainFinish ==
    /\ pc = "main"
    /\ restarted' = topo_has_changed
    /\ outcome' = "returned"
    /\ pc' = "done"
    /\ UNCHANGED <<status_code, content, fullsynced, monitoring_remap_in_progress, reconciled,
                   tp, new_tp, connections, skipped, vpn_calls,
                   ack_to_coordinator_message, topo_has_changed, wrote, remap,
                   updated, response_bound, response, ack_failed, warned,
                   marker_at_start>>
    /\ UNCHANGED durable
    /\ UNCHANGED reply_locals

\* the process is terminated from outside in the middle of a run
Crash ==
    /\ pc \notin {"idle", "done"}
    /\ outcome' = "crashed"
    /\ pc' = "done"
    /\ UNCHANGED <<status_code, content, fullsynced, monitoring_remap_in_progress, reconciled,
                   tp, new_tp, connections, skipped, vpn_calls,
                   ack_to_coordinator_message, topo_has_changed, wrote, remap,
                   updated, response_bound, response, ack_failed, warned,
                   restarted, marker_at_start>>
    /\ UNCHANGED durable
    /\ UNCHANGED reply_locals

\* the process is gone; the next run starts with fresh locals
Exit ==
    /\ pc = "done"
    /\ pc' = "idle"
    /\ status_code' = 0
    /\ content' = "none"
    /\ outcome' = "none"
    /\ fullsynced' = EmptyMap
    /\ monitoring_remap_in_progress' = FALSE
    /\ marker_at_start' = FALSE
    /\ reconciled' = FALSE
    /\ tp' = EmptyMap
    /\ new_tp' = EmptyMap
    /\ connections' = <<>>
    /\ skipped' = {}
    /\ vpn_calls' = <<>>
    /\ ack_to_coordinator_message' = EmptyMap
    /\ topo_has_changed' = FALSE
    /\ wrote' = FALSE
    /\ remap' = "none"
    /\ updated' = FALSE
    /\ response_bound' = FALSE
    /\ response' = EmptyMap
    /\ ack_failed' = FALSE
    /\ warned' = FALSE
    /\ restarted' = FALSE
    /\ UNCHANGED durable
    /\ UNCHANGED reply_locals

Next ==
    \/ ReadConnectionError
    \/ ReadBadStatus
    \/ ReadBadJson
    \/ ReadNoContent
    \/ ReadOk
    \/ SkipForeign
    \/ Reconcile
    \/ WriteTopology
    \/ ResetMonitoringMark
    \/ ResetMonitoringKeyError
    \/ ResetMonitoringPut
    \/ NoAck
    \/ AckRaises
    \/ AckResponds
    \/ MainFinish
    \/ Exit

Spec == Init /\ [][Next]_vars

NextCrash == Next \/ Crash

SpecCrash == Init /\ [][NextCrash]_vars

TypeOK == pc \in {"idle", "loop", "write", "mark", "put", "ack", "main", "done"}

(***************************************************************************)
(* Properties.                                                             *)
(***************************************************************************)
\* the state Reconcile leaves: lines 113-159 are done and nothing after them;
\* tp, new_tp, connections and skipped are not assigned again in the run
AfterReconcile ==
    /\ reconciled
    /\ pc \in {"write", "mark", "ack"}
    /\ ~wrote
    /\ remap = "none"

\* the interface id a key of Interfaces stands for
IfId(key) == CHOOSE n \in 0..99 : ToString(n) = key

\* the routers the allocation loop created
UserRouters == DOMAIN new_tp \ {BrName(1)}

\* the interfaces of the loaded topology that pruning leaves, under the id key
Survivors(key) ==
    {tp[n].Interfaces[key] :
       n \in {m \in DOMAIN tp : key \in DOMAIN KeptInterfaces(tp[m])}}

Count(seq, x) == Cardinality({i \in DOMAIN seq : seq[i] = x})

\* two lists hold the same connections, in whatever order
SameConnections(a, b) ==
    /\ Len(a) = Len(b)
    /\ \A x \in {a[i] : i \in DOMAIN a} \cup {b[i] : i \in DOMAIN b} :
          Count(a, x) = Count(b, x)

\* C1: in the topology produced by fullsync_local_gen every interface id
\* occurs in at most one router, the infrastructure router and the user
\* routers taken together.
C1_InterfaceIdsUnique ==
    AfterReconcile =>
        \A n1 \in DOMAIN new_tp : \A n2 \in DOMAIN new_tp :
            n1 # n2 =>
                DOMAIN new_tp[n1].Interfaces \cap DOMAIN new_tp[n2].Interfaces = {}

\* several routers were merged, a user router was created, and a connection
\* asked for an id above 10 that the merged router holds
C1_Witness ==
    /\ reconciled
    /\ Cardinality(DOMAIN _remove_child_interfaces(tp)) >= 2
    /\ UserRouters # {}
    /\ \E i \in skipped : connections[i].APBRID > 10

\* C2: every connection whose APBRID is at most 10 is skipped, and every
\* interface of a user router of the new topology has an id above 10.
C2_NoReservedIdInserted ==
    AfterReconcile =>
        /\ \A i \in 1..Len(connections) :
              connections[i].APBRID <= 10 => i \in skipped
        /\ \A n \in UserRouters : \A k \in DOMAIN new_tp[n].Interfaces :
              IfId(k) > 10

\* a connection with a reserved id was skipped while another was inserted
C2_Witness ==
    /\ reconciled
    /\ \E i \in skipped : connections[i].APBRID <= 10
    /\ \E n \in UserRouters : DOMAIN new_tp[n].Interfaces # {}

\* C3: a connection that asks for an id held by an interface of the loaded
\* topology that survives pruning is skipped; the new topology holds that id
\* in the infrastructure router only, with the content of a surviving
\* interface of the loaded topology.
C3_OccupiedIdKept ==
    AfterReconcile =>
        \A i \in 1..Len(connections) :
            LET key == ToString(connections[i].APBRID)
            IN  Survivors(key) # {} =>
                    /\ i \in skipped
                    /\ key \in DOMAIN new_tp[BrName(1)].Interfaces
                    /\ new_tp[BrName(1)].Interfaces[key] \in Survivors(key)
                    /\ \A n \in UserRouters : key \notin DOMAIN new_tp[n].Interfaces

\* a connection asked for an occupied id above 10 and another for an occupied
\* reserved id
C3_Witness ==
    /\ reconciled
    /\ \E i \in 1..Len(connections) :
          /\ connections[i].APBRID > 10
          /\ Survivors(ToString(connections[i].APBRID)) # {}
    /\ \E i \in 1..Len(connections) :
          /\ connections[i].APBRID <= 10
          /\ Survivors(ToString(connections[i].APBRID)) # {}

\* the connections acknowledged in this run
AcceptedConnections ==
    IF MY_ASID \in DOMAIN ack_to_coordinator_message
    THEN ack_to_coordinator_message[MY_ASID].connections
    ELSE <<>>

\* C4: when a run in which the coordinator was read returns, the topology on
\* disk holds no CHILD interface to a user AS other than those of the
\* connections accepted in this run, also after an empty answer or an answer
\* without the local AS.
C4_FullResync ==
    (pc = "done" /\ outcome = "returned") =>
        \A n \in DOMAIN disk : \A k \in DOMAIN disk[n].Interfaces :
            LET iface == disk[n].Interfaces[k]
            IN  (iface.LinkTo = "CHILD" /\ ~asid_is_infrastructure(iface.ISD_AS[2])) =>
                    \E j \in 1..Len(AcceptedConnections) :
                        /\ ToString(AcceptedConnections[j].APBRID) = k
                        /\ AcceptedConnections[j].ASID = iface.ISD_AS

\* C5: a run on the topology an earlier run wrote, with the connections of
\* that earlier run in whatever order, finds nothing changed, writes nothing,
\* returns and restarts nothing.
C5_RoundTrip ==
    (/\ reconciled
     /\ ~wrote
     /\ written_for # <<>>
     /\ SameConnections(connections, written_for[1])) =>
        /\ ~topo_has_changed
        /\ pc = "done" => (outcome = "returned" /\ ~restarted)

\* C6: a run that starts with the marker file present calls
\* _reset_monitoring, also when it leaves the topology unchanged (stated for
\* the runs that return).
C6_MarkerForcesRemap ==
    (pc = "done" /\ marker_at_start /\ outcome = "returned") => remap # "none"

\* C7: the marker file exists when the PUT is issued, and once
\* _reset_monitoring has returned it is absent exactly if the request
\* succeeded.
C7_MarkerIffFailed ==
    /\ pc = "put" => marker
    /\ remap \in {"ok", "error_status", "unreachable"} => (~marker <=> updated)

\* C8: whenever the process has ended while a written topology has not been
\* remapped with success, the marker file is present for the next run.
C8_CrashRecovery ==
    (pc = "done" /\ pending_remap) => marker

\* C9: when reply_fullsync raises, the failure is printed, the function
\* returns, the written topology stays, and main restarts the services if
\* the topology changed.
C9_AckFailureProceeds ==
    (pc = "done" /\ ack_failed /\ outcome # "crashed") =>
        /\ outcome = "returned"
        /\ wrote => disk = new_tp
        /\ topo_has_changed => restarted

\* C10: whenever the answer to the acknowledgment differs from what was sent,
\* the empty map included, the warning is printed and the run returns.
C10_DivergenceWarned ==
    (response_bound /\ response # ack_to_coordinator_message) =>
        /\ warned
        /\ pc = "done" => outcome \in {"returned", "crashed"}

\* the places <<router, key>> of the new topology whose key is the id if_id
Bearing(if_id) ==
    {p \in UNION {{<<n, k>> : k \in DOMAIN new_tp[n].Interfaces} : n \in DOMAIN new_tp} :
        p[2] = ToString(if_id)}

\* the positions of the connections that were not skipped, in their order
AcceptedPositions ==
    SelectSeq([j \in 1..Len(connections) |-> j], LAMBDA j : j \notin skipped)

\* C11: when the local AS is in the response, accepted and skipped
\* connections add up to the connections received, the acknowledgment holds
\* the received list without the skipped ones in the received order, and
\* every accepted connection has exactly one interface with its id.
C11_AcceptedPlusSkipped ==
    AfterReconcile =>
        /\ skipped \subseteq 1..Len(connections)
        /\ Len(AcceptedConnections) + Cardinality(skipped) = Len(connections)
        /\ Len(AcceptedConnections) = Len(AcceptedPositions)
        /\ \A k \in 1..Len(AcceptedPositions) :
              AcceptedConnections[k] = connections[AcceptedPositions[k]]
        /\ \A j \in 1..Len(connections) :
              j \notin skipped => Cardinality(Bearing(connections[j].APBRID)) = 1

\* a connection was skipped and a later one accepted
C11_Witness ==
    /\ reconciled
    /\ \E j \in skipped : \E k \in (j + 1)..Len(connections) : k \notin skipped

\* rounded up quotient
CeilDiv(a, b) == (a + b - 1) \div b

\* C12: no user router holds more than MAX_IFACES_IN_BR interfaces; k
\* accepted connections give ceil(k / 12) user routers, named with the
\* indices 11, 12, ... without a gap, all but the last holding 12.
C12_RoutersFilledInOrder ==
    AfterReconcile =>
        LET k == Len(AcceptedConnections)
            r == CeilDiv(k, MAX_IFACES_IN_BR)
        IN  /\ UserRouters = {BrName(10 + i) : i \in 1..r}
            /\ \A i \in 1..r :
                  Cardinality(DOMAIN new_tp[BrName(10 + i)].Interfaces) =
                     IF i < r THEN MAX_IFACES_IN_BR
                     ELSE k - (r - 1) * MAX_IFACES_IN_BR

\* thirteen accepted connections: two routers holding 12 and 1
C12_Witness ==
    /\ reconciled
    /\ Len(AcceptedConnections) = MAX_IFACES_IN_BR + 1
    /\ UserRouters = {BrName(11), BrName(12)}
    /\ Cardinality(DOMAIN new_tp[BrName(11)].Interfaces) = 12
    /\ Cardinality(DOMAIN new_tp[BrName(12)].Interfaces) = 1

\* the interface _insert_interface makes of a connection shows its remote
\* AS and its two endpoints
CarriesConnection(iface, conn) ==
    /\ iface.ISD_AS = conn.ASID
    /\ iface.RemoteOverlay = [Addr |-> conn.UserIP, OverlayPort |-> conn.UserPort]
    /\ iface.PublicOverlay.OverlayPort = conn.APPort

\* C13: of two connections of one list that ask for the same id, above 10
\* and free after pruning and merging, the earlier is accepted, the later is
\* skipped, and the interface with this id carries the earlier connection.
C13_FirstSeenWins ==
    AfterReconcile =>
        \A i \in 1..Len(connections) : \A j \in 1..Len(connections) :
            LET id == connections[i].APBRID
                free == ToString(id) \notin
                          DOMAIN _combine_border_routers(_remove_child_interfaces(tp),
                                                         BrName(1))[BrName(1)].Interfaces
                first == \A h \in 1..(i - 1) : connections[h].APBRID # id
            IN  (i < j /\ connections[j].APBRID = id /\ id > 10 /\ free /\ first) =>
                    /\ i \notin skipped
                    /\ j \in skipped
                    /\ \A p \in Bearing(id) :
                          /\ p[1] \in UserRouters
                          /\ CarriesConnection(new_tp[p[1]].Interfaces[p[2]],
                                               connections[i])
                    /\ Bearing(id) # {}

\* two different connections asked for the same free id
C13_Witness ==
    /\ reconciled
    /\ \E i \in 1..Len(connections) : \E j \in 1..Len(connections) :
          /\ i < j
          /\ connections[i].APBRID = connections[j].APBRID
          /\ connections[i].ASID # connections[j].ASID
          /\ i \notin skipped
          /\ j \in skipped

\* the range of the infrastructure ASes as documented: 0xffaa00000000 is in
\* it, 0xffaa00010000 is not
InInfrastructureRange(asid) == ~AsLess(asid, INFRA_LO) /\ AsLess(asid, INFRA_HI)

\* the interface k of the router n of the loaded topology is gone after
\* _remove_child_interfaces
Pruned(n, k) ==
    LET brs == _remove_child_interfaces(tp)
    IN  ~(n \in DOMAIN brs /\ k \in DOMAIN brs[n].Interfaces)

\* C14: pruning removes an interface exactly when it is a CHILD link to an
\* AS outside [0xffaa00000000, 0xffaa00010000); every other interface is
\* left as it was, and a router is deleted exactly when no interface is left.
C14_PruningExemptsInfrastructure ==
    reconciled =>
        LET brs == _remove_child_interfaces(tp)
        IN  /\ \A n \in DOMAIN tp : \A k \in DOMAIN tp[n].Interfaces :
                  LET iface == tp[n].Interfaces[k]
                  IN  /\ Pruned(n, k) <=>
                            (iface.LinkTo = "CHILD"
                             /\ ~InInfrastructureRange(iface.ISD_AS[2]))
                      /\ ~Pruned(n, k) => brs[n].Interfaces[k] = iface
            /\ \A n \in DOMAIN tp :
                  n \notin DOMAIN brs <=>
                     \A k \in DOMAIN tp[n].Interfaces : Pruned(n, k)

\* the orders in which a mapping with the keys S may iterate them
KeyOrders(S) ==
    {f \in [1..Cardinality(S) -> S] :
        \A i \in DOMAIN f : \A j \in DOMAIN f : i # j => f[i] # f[j]}

\* a faulty merge order: the other routers as the mapping iterates them
MergeOrderAsIterated(keys, brname) == SelectSeq(keys, LAMBDA n : n # brname)

\* line 248: sorted(set(brs.keys()) - {brname}), for a mapping that iterates
\* its keys in the order keys
MergeOrder(keys, brname) == Sorted({keys[i] : i \in DOMAIN keys} \ {brname})

\* _combine_border_routers on a mapping that iterates its keys in the order
\* keys: next(iter(brs)) is keys[1]
CombineIterating(brs, keys, brname) ==
    IF Len(keys) = 1
    THEN [n \in {brname} |-> brs[keys[1]]]
    ELSE LET br == IF brname \in DOMAIN brs THEN brs[brname]
                   ELSE _create_border_router
         IN  [n \in {brname} |-> MergeAll(br, brs, MergeOrder(keys, brname))]

\* the first router, in the sorted order of the names, that has the key k in
\* its map field (InternalAddrs, CtrlAddr or Interfaces)
FirstHolder(brs, field, k) ==
    Head(SelectSeq(NameOrder,
                   LAMBDA n : n \in DOMAIN brs /\ k \in DOMAIN brs[n][field]))

\* C15: when several routers are merged, the merged router is the same for
\* every iteration order of the router mapping; each key of its addresses
\* and interfaces has the entry of the first router, by sorted name, that
\* has the key; and its keys are the union of the keys of the routers.
C15_MergeOrderIndependent ==
    AfterReconcile =>
        LET brs == _remove_child_interfaces(tp)
            merged == new_tp[BrName(1)]
        IN  Cardinality(DOMAIN brs) >= 2 =>
              /\ \A keys \in KeyOrders(DOMAIN brs) :
                    CombineIterating(brs, keys, BrName(1))
                       = [n \in {BrName(1)} |-> merged]
              /\ \A field \in {"InternalAddrs", "CtrlAddr", "Interfaces"} :
                    /\ DOMAIN merged[field]
                          = UNION {DOMAIN brs[n][field] : n \in DOMAIN brs}
                    /\ \A k \in DOMAIN merged[field] :
                          merged[field][k]
                             = brs[FirstHolder(brs, field, k)][field][k]

\* two routers other than the canonical one were merged that have different
\* interfaces for one id and different addresses for one protocol
C15_Witness ==
    /\ reconciled
    /\ LET brs == _remove_child_interfaces(tp)
       IN  /\ BrName(1) \notin DOMAIN brs
           /\ \E n \in DOMAIN brs : \E m \in DOMAIN brs :
                 /\ n # m
                 /\ \E k \in DOMAIN brs[n].Interfaces \cap DOMAIN brs[m].Interfaces :
                       brs[n].Interfaces[k] # brs[m].Interfaces[k]
                 /\ \E p \in DOMAIN brs[n].InternalAddrs \cap DOMAIN brs[m].InternalAddrs :
                       brs[n].InternalAddrs[p] # brs[m].InternalAddrs[p]

\* C16: pruning the child links of a topology that was pruned already
\* changes nothing.
C16_PruningIdempotent ==
    AfterReconcile =>
        _remove_child_interfaces(_remove_child_interfaces(tp))
           = _remove_child_interfaces(tp)

\* the pruning deleted a router, deleted an interface of a router it kept,
\* and left an interface with a CHILD link
C16_Witness ==
    /\ reconciled
    /\ LET brs == _remove_child_interfaces(tp)
       IN  /\ DOMAIN tp \ DOMAIN brs # {}
           /\ \E n \in DOMAIN brs : DOMAIN brs[n].Interfaces # DOMAIN tp[n].Interfaces
           /\ \E n \in DOMAIN brs : \E k \in DOMAIN brs[n].Interfaces :
                 brs[n].Interfaces[k].LinkTo = "CHILD"

\* C17: the changed verdict is true exactly when the routers of the new
\* topology, names or content, differ from those of the loaded topology; in
\* a cycle the topology is written exactly when the verdict is true; and
\* main restarts the services exactly when fullsync_local_gen returned true.
C17_ChangedDrivesWriteAndRestart ==
    /\ reconciled => (topo_has_changed <=> tp # new_tp)
    /\ ~reconciled => ~topo_has_changed
    /\ pc \in {"mark", "put", "ack", "main", "done"} => (wrote <=> topo_has_changed)
    /\ pc \notin {"mark", "put", "ack", "main", "done"} => ~wrote
    /\ pc = "done" => (restarted <=> (outcome = "returned" /\ topo_has_changed))
    /\ pc # "done" => ~restarted

\* a run returned after it changed the content of a router and no name:
\* the topology was written and the services were restarted
C17_Witness ==
    /\ pc = "done"
    /\ outcome = "returned"
    /\ DOMAIN tp = DOMAIN new_tp
    /\ tp # new_tp
    /\ wrote
    /\ disk = new_tp
    /\ restarted

\* the read request of the run failed: no answer, a status other than 200
\* and 204, or status 200 with a body that is not JSON
ReadFailed ==
    /\ pc = "done"
    /\ \/ content = "none"
       \/ status_code \notin {200, 204}
       \/ status_code = 200 /\ content # "json"

\* C18: status 204 gives the empty map; a status other than 200 and 204
\* raises, whatever the body; status 200 with a body that is not JSON
\* raises; a connection failure ends the process with exit code 1; and in
\* each of these failures nothing is written, no remap is attempted and no
\* acknowledgment is sent.
C18_ReadPathOutcomes ==
    /\ status_code = 204 =>
          fullsynced = EmptyMap /\ outcome \in {"running", "returned"}
    /\ (status_code # 0 /\ status_code \notin {200, 204}) =>
          ReadFailed /\ outcome = "raised"
    /\ (status_code = 200 /\ content # "json") => ReadFailed /\ outcome = "raised"
    /\ (pc \notin {"idle", "done"} \/ outcome = "returned") =>
          status_code \in {200, 204}
    /\ (pc = "done" /\ content = "none") => outcome = "exit1"
    /\ ReadFailed =>
          /\ ~reconciled
          /\ ~wrote
          /\ remap = "none"
          /\ marker = marker_at_start
          /\ ack_to_coordinator_message = EmptyMap
          /\ ~response_bound
          /\ ~ack_failed
          /\ ~restarted

\* the coordinator answered status 500 with a JSON body while the marker of
\* an unfinished remap existed: the run raised and did nothing
C18_Witness ==
    /\ ReadFailed
    /\ status_code = 500
    /\ content = "json"
    /\ outcome = "raised"
    /\ marker
    /\ marker_at_start
    /\ pending_remap

(***************************************************************************)
(* reply_fullsync, lines 321-343, request by request: the state at its     *)
(* call, its loop, and its return into lines 171-181 of fullsync_local_gen.*)
(***************************************************************************)
\* the redirects followed in the model; the loop itself has no limit
MaxRedirects == 2

\* the URL built at lines 329-333
PostFullUrl == "coordinator/postfull"

\* the URLs a redirect of the coordinator may name: a mirror, or the
\* original URL again
RedirectTargets == {PostFullUrl, "mirror/postfull"}

\* the body of a response that is not a redirect: JSON for one of the maps
\* the coordinator may answer, or text that json.loads rejects
Bodies(ack) ==
    {[json |-> TRUE, body |-> r] : r \in AckResponses(ack)}
       \cup {[json |-> FALSE, body |-> EmptyMap]}

\* the messages fullsync_local_gen hands over: the status of the local AS
\* with the connections it accepted of a list it received
AckMessages ==
    {[a \in {MY_ASID} |-> Status(Reconciled(EmptyMap, b).accepted)] : b \in Batches}

\* the call at line 171; reply_fullsync sees the message alone, the other
\* variables of the caller are left at their initial values
InitReply ==
    /\ pc = "ack"
    /\ status_code = 200
    /\ content = "json"
    /\ outcome = "running"
    /\ disk = EmptyMap
    /\ marker = FALSE
    /\ fullsynced = EmptyMap
    /\ monitoring_remap_in_progress = FALSE
    /\ reconciled = FALSE
    /\ tp = EmptyMap
    /\ new_tp = EmptyMap
    /\ connections = <<>>
    /\ skipped = {}
    /\ vpn_calls = <<>>
    /\ ack_to_coordinator_message \in AckMessages
    /\ topo_has_changed = FALSE
    /\ wrote = FALSE
    /\ remap = "none"
    /\ updated = FALSE
    /\ response_bound = FALSE
    /\ response = EmptyMap
    /\ ack_failed = FALSE
    /\ warned = FALSE
    /\ restarted = FALSE
    /\ marker_at_start = FALSE
    /\ written_for = <<>>
    /\ pending_remap = FALSE
    /\ url = PostFullUrl
    /\ resp = NoResponse
    /\ posts = <<>>
    /\ redirects = <<>>

\* the variables of fullsync_local_gen that reply_fullsync cannot touch
caller == <<status_code, content, disk, marker, fullsynced,
            monitoring_remap_in_progress, reconciled, tp, new_tp, connections,
            skipped, vpn_calls, ack_to_coordinator_message, topo_has_changed,
            wrote, remap, updated, restarted, marker_at_start, written_for,
            pending_remap>>

\* a faulty loop that posts to the same URL again after a redirect
ReplyRedirectedNotFollowed ==
    /\ pc = "ack"
    /\ url # ""
    /\ Len(redirects) < MaxRedirects
    /\ \E target \in RedirectTargets :
          /\ resp' = [is_redirect |-> TRUE, next |-> target,
                      json |-> FALSE, body |-> EmptyMap]
          /\ redirects' = Append(redirects, target)
    /\ posts' = Append(posts, [url |-> url, json |-> ack_to_coordinator_message])
    /\ UNCHANGED <<pc, outcome, url, response_bound, response, ack_failed, warned>>
    /\ UNCHANGED caller

\* lines 336-337: the POST is answered with a redirect, resp.next.url is the
\* URL of the next POST
ReplyRedirected ==
    /\ pc = "ack"
    /\ url # ""
    /\ Len(redirects) < MaxRedirects
    /\ \E target \in RedirectTargets :
          /\ resp' = [is_redirect |-> TRUE, next |-> target,
                      json |-> FALSE, body |-> EmptyMap]
          /\ url' = target
          /\ redirects' = Append(redirects, target)
    /\ posts' = Append(posts, [url |-> url, json |-> ack_to_coordinator_message])
    /\ UNCHANGED <<pc, outcome, response_bound, response, ack_failed, warned>>
    /\ UNCHANGED caller

\* lines 336-337: the POST is answered with a response that is no redirect,
\* url becomes None and the loop ends
ReplyAnswered ==
    /\ pc = "ack"
    /\ url # ""
    /\ \E b \in Bodies(ack_to_coordinator_message) :
          resp' = [is_redirect |-> FALSE, next |-> "",
                   json |-> b.json, body |-> b.body]
    /\ url' = ""
    /\ posts' = Append(posts, [url |-> url, json |-> ack_to_coordinator_message])
    /\ pc' = "replied"
    /\ UNCHANGED <<outcome, redirects, response_bound, response, ack_failed, warned>>
    /\ UNCHANGED caller

\* line 336: requests.post raises; line 173 prints and line 174 reads the
\* unassigned response
ReplyPostFails ==
    /\ pc = "ack"
    /\ url # ""
    /\ posts' = Append(posts, [url |-> url, json |-> ack_to_coordinator_message])
    /\ ack_failed' = TRUE
    /\ outcome' = "raised"
    /\ pc' = "done"
    /\ UNCHANGED <<url, resp, redirects, response_bound, response, warned>>
    /\ UNCHANGED caller

\* lines 338-343: json.loads rejects the body of the last response; line 173
\* prints and line 174 reads the unassigned response
ReplyBadJson ==
    /\ pc = "replied"
    /\ ~resp.json
    /\ ack_failed' = TRUE
    /\ outcome' = "raised"
    /\ pc' = "done"
    /\ UNCHANGED <<url, resp, posts, redirects, response_bound, response, warned>>
    /\ UNCHANGED caller

\* lines 338-343 return the parsed body of the last response; lines 171-181
ReplyReturns ==
    /\ pc = "replied"
    /\ resp.json
    /\ response' = resp.body
    /\ response_bound' = TRUE
    /\ warned' = (resp.body # EmptyMap /\ resp.body # ack_to_coordinator_message)
    /\ pc' = "main"
    /\ UNCHANGED <<outcome, url, resp, posts, redirects, ack_failed>>
    /\ UNCHANGED caller

NextReply ==
    \/ ReplyRedirected
    \/ ReplyAnswered
    \/ ReplyPostFails
    \/ ReplyBadJson
    \/ ReplyReturns

SpecReply == InitReply /\ [][NextReply]_vars

\* C19: when the coordinator answers n redirects and then a response that
\* is no redirect, reply_fullsync has issued n + 1 POSTs, each with the
\* acknowledgment as payload, the first to the original URL and the one
\* after the k-th redirect to the target of that redirect; and it returns
\* the parsed JSON body of the last response.
C19_RedirectsFollowed ==
    LET n == Len(redirects)
    IN  /\ pc = "ack" =>
              /\ Len(posts) = n
              /\ url = IF n = 0 THEN PostFullUrl ELSE redirects[n]
        /\ pc \in {"replied", "main"} =>
              /\ Len(posts) = n + 1
              /\ ~resp.is_redirect
        /\ \A k \in 1..Len(posts) : posts[k].json = ack_to_coordinator_message
        /\ posts # <<>> => posts[1].url = PostFullUrl
        /\ \A k \in 1..n : k + 1 <= Len(posts) => posts[k + 1].url = redirects[k]
        /\ pc = "main" =>
              /\ response_bound
              /\ resp.json
              /\ response = resp.body

\* two redirects, to the mirror and back to the original URL, were followed
\* and the answer of the third POST was returned
C19_Witness ==
    /\ pc = "main"
    /\ redirects = <<"mirror/postfull", PostFullUrl>>
    /\ Len(posts) = 3
    /\ response = ack_to_coordinator_message
    /\ response # EmptyMap
    /\ Len(ack_to_coordinator_message[MY_ASID].connections) = MaxConns

\* C20: from an empty topology and one connection without VPN that asks
\* for the interface id 20, the new topology has exactly one user router,
\* of index 11, holding exactly the interface 20; no connection is skipped;
\* and the topology is found changed.
C20_SingleConnectionScenario ==
    (/\ reconciled
     /\ tp = EmptyMap
     /\ Len(connections) = 1
     /\ connections[1].APBRID = 20
     /\ ~connections[1].IsVPN) =>
        /\ UserRouters = {BrName(11)}
        /\ DOMAIN new_tp[BrName(11)].Interfaces = {"20"}
        /\ CarriesConnection(new_tp[BrName(11)].Interfaces["20"], connections[1])
        /\ new_tp[BrName(11)].Interfaces["20"].PublicOverlay.Addr = INTERFACE_IP
        /\ skipped = {}
        /\ vpn_calls = <<>>
        /\ topo_has_changed

\* the scenario happened and the new topology was written
C20_Witness ==
    /\ reconciled
    /\ tp = EmptyMap
    /\ connections = <<Conn(IA_USER_A, "198.51.100.1", 20, FALSE, "")>>
    /\ wrote
    /\ disk = new_tp
    /\ BrName(11) \in DOMAIN disk

\* C21: with no router or one router left after pruning,
\* _combine_border_routers leaves the routers, names and content, as they
\* are and adds none; and on a topology it has canonicalized already it
\* changes nothing.
C21_CanonicalizationFrame ==
    AfterReconcile =>
        LET brs == _remove_child_interfaces(tp)
            combined == _combine_border_routers(brs, BrName(1))
        IN  /\ Cardinality(DOMAIN brs) <= 1 => combined = brs
            /\ _combine_border_routers(combined, BrName(1)) = combined

\* C22: every router of the new topology has an IPv4 internal address, so
\* _reset_monitoring never raises on it, and a run that changed the
\* topology does not end before the acknowledgment.
C22_RoutersHaveOverlayPort ==
    /\ AfterReconcile => \A n \in DOMAIN new_tp : HasOverlayPort(new_tp[n])
    /\ remap # "keyerror"
    /\ (pc = "done" /\ topo_has_changed) =>
          (response_bound \/ ack_failed \/ ack_to_coordinator_message = EmptyMap)

\* lines 335-337 set no limit to the redirects: the coordinator may answer
\* a redirect again after MaxRedirects of them; the history keeps no record
\* of these further requests
ReplyRedirectedOn ==
    /\ pc = "ack"
    /\ url # ""
    /\ Len(redirects) >= MaxRedirects
    /\ \E target \in RedirectTargets :
          /\ resp' = [is_redirect |-> TRUE, next |-> target,
                      json |-> FALSE, body |-> EmptyMap]
          /\ url' = target
    /\ UNCHANGED <<pc, outcome, posts, redirects, response_bound, response,
                   ack_failed, warned>>
    /\ UNCHANGED caller

NextLoop ==
    \/ ReplyRedirected
    \/ ReplyRedirectedOn
    \/ ReplyAnswered
    \/ ReplyPostFails
    \/ ReplyBadJson
    \/ ReplyReturns

\* the process keeps running: a request that can be made is made and is
\* answered in some way, the coordinator chooses how
SpecLoop == InitReply /\ [][NextLoop]_vars /\ WF_vars(NextLoop)

\* C23: the acknowledgment call ends, by a return or by an exception,
\* whatever the coordinator answers.
C23_ReplyTerminates == <>(pc \in {"main", "done"})

\* the calls of configure_vpn_ip that the accepted VPN connections ask for,
\* one for each, in the order of the list
VpnCallsDue ==
    LET pos == SelectSeq(AcceptedPositions, LAMBDA j : connections[j].IsVPN)
    IN  [k \in 1..Len(pos) |->
           <<connections[pos[k]].VPNUserID, connections[pos[k]].UserIP>>]

\* C24: configure_vpn_ip is called exactly once, with the user and the
\* remote address, for every accepted connection with the VPN flag and for
\* no other connection; the interface of an accepted connection has the VPN
\* gateway address as its local address if the connection has the VPN flag
\* and the interface address of the attachment point otherwise.
C24_VpnAssignedOncePerAccepted ==
    AfterReconcile =>
        /\ vpn_calls = VpnCallsDue
        /\ \A j \in 1..Len(connections) : j \notin skipped =>
              \A p \in Bearing(connections[j].APBRID) :
                 new_tp[p[1]].Interfaces[p[2]].PublicOverlay.Addr
                    = IF connections[j].IsVPN THEN VPN_ADDR ELSE INTERFACE_IP

\* a VPN connection was accepted after a connection without VPN, or was
\* accepted and then met again and skipped: one call was made
C24_Witness ==
    /\ AfterReconcile
    /\ Len(vpn_calls) = 1
    /\ Len(connections) = 2
    /\ \E i \in 1..2 : connections[i].IsVPN /\ i \notin skipped
    /\ \E i \in 1..2 : i \in skipped \/ ~connections[i].IsVPN
    /\ \E n \in UserRouters : \E k \in DOMAIN new_tp[n].Interfaces :
          new_tp[n].Interfaces[k].PublicOverlay.Addr = VPN_ADDR
====
